---- MODULE Spec2Model ----
(***************************************************************************)
(* Boilerplate_checker.py: the header check of one file                    *)
(* (file_passes_check and the regular expressions it uses) and the batch   *)
(* driver (main, get_files_to_check, normalize_files).                     *)
(*                                                                         *)
(* Text is modelled character by character as TLA+ strings; the regular    *)
(* expressions are modelled by what they match on such text.  The only     *)
(* line terminator of the modelled alphabet is "\n".                       *)
(***************************************************************************)
EXTENDS Integers, Sequences, FiniteSets, TLC

VARIABLES
    filename,      \* file_passes_check: the path being checked
    content,       \* the text the file holds on disk
    refs,          \* template map: key -> sequence of lines
    verbose,       \* args.verbose
    current_year,  \* datetime.datetime.now().year when the patterns are compiled
    pc,            \* position inside file_passes_check
    data,          \* local `data` while it is text
    lines,         \* local `data` once it is a list of lines
    generated,     \* local `generated` (truthiness of the match)
    extension,     \* local `extension`
    ref,           \* local `ref`
    result,        \* what file_passes_check returned: "none" yet, "pass" (True) or "fail" (False)
    stdout,        \* what has been written to sys.stdout
    stderr,        \* what has been written to sys.stderr
    steps,         \* history: the stages of file_passes_check that have run
    main_pc,       \* position inside main
    filenames,     \* args.filenames
    walked,        \* the paths os.walk yields under args.rootdir
    files_to_check,\* main's local list
    checked,       \* history: the files main has run file_passes_check on
    exit_status    \* what main returned, -1 while it has not

vars == <<filename, content, refs, verbose, current_year, pc, data, lines,
          generated, extension, ref, result, stdout, stderr, steps,
          main_pc, filenames, walked, files_to_check, checked, exit_status>>

checkVars == <<filename, content, refs, verbose, current_year, pc, data, lines,
               generated, extension, ref, result, steps>>

mainVars == <<main_pc, filenames, walked, files_to_check, checked, exit_status>>

(***************************************************************************)
(* Bounds of the model                                                     *)
(***************************************************************************)
MaxLines == 2      \* pieces (lines, or a build block with its blank line) of a candidate text
MaxFiles == 2      \* length of args.filenames, and files under rootdir

(***************************************************************************)
(* Text helpers                                                            *)
(***************************************************************************)
NL == "\n"

Char(s, i) == SubSeq(s, i, i)

\* s[i:] in Python terms, i counted from 1
From(s, i) == SubSeq(s, i, Len(s))

\* pattern p occurs in s at position i
MatchAt(s, p, i) ==
    /\ i >= 1
    /\ i + Len(p) - 1 <= Len(s)
    /\ SubSeq(s, i, i + Len(p) - 1) = p

StartsWith(s, p) == MatchAt(s, p, 1)

EndsWith(s, p) == MatchAt(s, p, Len(s) - Len(p) + 1)

\* index of the first "\n" at or after position i, 0 when there is none
RECURSIVE NextNL(_, _)
NextNL(s, i) ==
    IF i > Len(s) THEN 0
    ELSE IF Char(s, i) = NL THEN i
    ELSE NextNL(s, i + 1)

\* str.splitlines(): the lines without their terminators, no trailing empty line
RECURSIVE splitlines(_)
splitlines(s) ==
    IF s = "" THEN << >>
    ELSE LET n == NextNL(s, 1)
         IN  IF n = 0 THEN << s >>
             ELSE << SubSeq(s, 1, n - 1) >> \o splitlines(From(s, n + 1))

\* data[:n] on a list
Truncate(seq, n) == SubSeq(seq, 1, IF n < Len(seq) THEN n ELSE Len(seq))

(***************************************************************************)
(* The compiled patterns (compile_regex_patterns)                          *)
(***************************************************************************)
Epoch == 2014

Digit(d) == SubSeq("0123456789", d + 1, d + 1)

\* str(year) for a four-digit year
YearStr(y) ==
    Digit(y \div 1000) \o Digit((y \div 100) % 10)
        \o Digit((y \div 10) % 10) \o Digit(y % 10)

\* mutant: range(2014, current_year), the current year left out
YearAlternativesExclusive(cy) == { YearStr(y) : y \in Epoch..(cy - 1) }

\* get_current_year_regex: the alternatives "2014|2015|...|<current year>"
YearAlternatives(cy) == { YearStr(y) : y \in Epoch..cy }

\* regexs["date"] matches in s at position i
DateMatchAt(s, i, cy) == \E y \in YearAlternatives(cy) : MatchAt(s, y, i)

\* regexs["date"].sub("YEAR", line): leftmost, non-overlapping replacement
RECURSIVE DateSubFrom(_, _, _)
DateSubFrom(s, i, cy) ==
    IF i > Len(s) THEN ""
    ELSE IF DateMatchAt(s, i, cy) THEN "YEAR" \o DateSubFrom(s, i + 4, cy)
    ELSE Char(s, i) \o DateSubFrom(s, i + 1, cy)

DateSub(line, cy) == DateSubFrom(line, 1, cy)

\* regexs["year"].search(line)
YearSearch(line) == \E i \in 1..Len(line) : MatchAt(line, "YEAR", i)

\* `^` under re.MULTILINE: the start of the text or just after a newline
IsLineStart(s, p) == p = 1 \/ (p > 1 /\ p <= Len(s) + 1 /\ Char(s, p - 1) = NL)

\* length of the leading run of characters of [/*#]
RECURSIVE MarkerRun(_, _)
MarkerRun(l, i) ==
    IF i <= Len(l) /\ Char(l, i) \in {"/", "*", "#"}
    THEN MarkerRun(l, i + 1) ELSE i - 1

DoNotEdit == " DO NOT EDIT."

\* one line matches [/*#]+ +.* DO NOT EDIT\.$
GeneratedLine(l) ==
    LET r == MarkerRun(l, 1)
    IN  /\ r >= 1
        /\ r + 1 <= Len(l)
        /\ Char(l, r + 1) = " "
        /\ EndsWith(l, DoNotEdit)
        /\ Len(l) - Len(DoNotEdit) + 1 >= r + 2

\* regexs["generated"].search(data): some line of the text matches
GeneratedSearch(text) ==
    LET ls == splitlines(text)
    IN  \E k \in 1..Len(ls) : GeneratedLine(ls[k])

\* a line "//go:build..." or "// +build..." that starts at p and ends in "\n"
ConstraintLineAt(s, p) ==
    /\ MatchAt(s, "//go:build", p) \/ MatchAt(s, "// +build", p)
    /\ NextNL(s, p) # 0

\* the position just after the longest run of constraint lines starting at p
RECURSIVE ConstraintRunEnd(_, _)
ConstraintRunEnd(s, p) ==
    IF ConstraintLineAt(s, p) THEN ConstraintRunEnd(s, NextNL(s, p) + 1) ELSE p

\* regexs["go_build_constraints"] matches at p: (constraint line)+ then "\n"
GoBuildMatchAt(s, p) ==
    /\ IsLineStart(s, p)
    /\ ConstraintRunEnd(s, p) > p
    /\ MatchAt(s, NL, ConstraintRunEnd(s, p))

\* the position just after the run of "\n" starting at p
RECURSIVE NewlineRunEnd(_, _)
NewlineRunEnd(s, p) ==
    IF MatchAt(s, NL, p) THEN NewlineRunEnd(s, p + 1) ELSE p

\* regexs["shebang"] matches at p: ^(#!.*\n)\n*
ShebangMatchAt(s, p) ==
    /\ IsLineStart(s, p)
    /\ MatchAt(s, "#!", p)
    /\ NextNL(s, p) # 0

\* regexs["go_build_constraints"].subn("", data, 1): the leftmost match removed
GoBuildSub(s) ==
    LET hits == { p \in 1..Len(s) : GoBuildMatchAt(s, p) }
    IN  IF hits = {} THEN s
        ELSE LET p == CHOOSE q \in hits : \A o \in hits : q <= o
             IN  SubSeq(s, 1, p - 1) \o From(s, ConstraintRunEnd(s, p) + 1)

\* regexs["shebang"].subn("", data, 1): the leftmost match removed
ShebangSub(s) ==
    LET hits == { p \in 1..Len(s) : ShebangMatchAt(s, p) }
    IN  IF hits = {} THEN s
        ELSE LET p == CHOOSE q \in hits : \A o \in hits : q <= o
             IN  SubSeq(s, 1, p - 1) \o From(s, NewlineRunEnd(s, NextNL(s, p) + 1))


(***************************************************************************)
(* File names and the template map                                         *)
(***************************************************************************)
\* the largest index of character c in s, 0 when c does not occur
RECURSIVE LastIndexOf(_, _, _)
LastIndexOf(s, c, i) ==
    IF i < 1 THEN 0
    ELSE IF Char(s, i) = c THEN i
    ELSE LastIndexOf(s, c, i - 1)

\* os.path.basename
basename(path) == From(path, LastIndexOf(path, "/", Len(path)) + 1)

\* os.path.splitext(path)[1]: from the last dot of the last component on,
\* unless only dots precede it in that component
splitext_ext(path) ==
    LET sep == LastIndexOf(path, "/", Len(path))
        dot == LastIndexOf(path, ".", Len(path))
    IN  IF dot > sep /\ \E k \in (sep + 1)..(dot - 1) : Char(path, k) # "."
        THEN From(path, dot) ELSE ""

Upper == "ABCDEFGHIJKLMNOPQRSTUVWXYZ"
Lower == "abcdefghijklmnopqrstuvwxyz"

\* str.lower() on the ASCII letters
RECURSIVE lower(_)
lower(s) ==
    IF s = "" THEN ""
    ELSE LET c == Char(s, 1)
             hit == { k \in 1..Len(Upper) : Char(Upper, k) = c }
         IN  (IF hit = {} THEN c ELSE Char(Lower, CHOOSE k \in hit : TRUE))
                 \o lower(From(s, 2))

\* get_file_extension: splitext(filename)[1].split(".")[-1].lower()
get_file_extension(path) ==
    LET ext == splitext_ext(path)
    IN  lower(From(ext, LastIndexOf(ext, ".", Len(ext)) + 1))

\* dict.get(key, default)
DictGet(d, key, default) == IF key \in DOMAIN d THEN d[key] ELSE default

\* is_generated_file, taken for its truth value
is_generated_file(text) == GeneratedSearch(text)

\* lines 55-57: the extension, remapped for a generated Go file
EffectiveExtension(path, text) ==
    IF is_generated_file(text) /\ get_file_extension(path) = "go"
    THEN "generatego" ELSE get_file_extension(path)

\* line 59: refs.get(extension, refs.get(basename, []))
SelectRef(rs, ext, path) == DictGet(rs, ext, DictGet(rs, basename(path), << >>))

\* lines 61-65: the preamble removed according to the extension
StripPreamble(ext, text) ==
    IF ext \in {"go", "generatego"} THEN GoBuildSub(text)
    ELSE IF ext \in {"sh", "py"} THEN ShebangSub(text)
    ELSE text

\* mutant: only the line the loop ended on is tested
HasYearFieldLastLine(ls) == ls # << >> /\ YearSearch(ls[Len(ls)])

\* line 76-77: some line of the window carries the YEAR placeholder
HasYearField(ls) == \E k \in 1..Len(ls) : YearSearch(ls[k])

\* line 86: every line with its years replaced
SubstituteYears(ls, cy) == [k \in 1..Len(ls) |-> DateSub(ls[k], cy)]


(***************************************************************************)
(* Inputs: files, texts, template maps, clock                              *)
(***************************************************************************)
FileNames == {"a.go", "b.SH", "d/Makefile"}

\* pieces a candidate text is made of: lines with their newline, and a build
\* constraint with the blank line that ends its block
Chunks ==
    { "# YEAR\n", "# 2014\n", "#202014\n", "# L\n",
      "# G DO NOT EDIT.\n", "#!sh\n", "//go:build a\n\n" }

RECURSIVE TextsOf(_)
TextsOf(n) ==
    IF n = 0 THEN { "" }
    ELSE LET shorter == TextsOf(n - 1)
         IN  shorter \cup { t \o c : t \in shorter, c \in Chunks }

Texts == TextsOf(MaxLines)

RefsFull ==
    ("go" :> << "# YEAR" >>) @@ ("generatego" :> << "# L" >>)
        @@ ("sh" :> << "# YEAR", "# L" >>) @@ ("Makefile" :> << "# L" >>)

RefsFixedYear ==
    ("go" :> << "# 2014" >>) @@ ("generatego" :> << "# YEAR" >>)
        @@ ("sh" :> << "#20YEAR" >>) @@ ("Makefile" :> << "# 2014", "# L" >>)

RefsGoOnly == ("go" :> << "# L", "# YEAR" >>)

RefsNone == [k \in {} |-> << >>]

RefMaps == { RefsFull, RefsFixedYear, RefsGoOnly }

CurrentYears == { 2014, 2020 }

(***************************************************************************)
(* Output streams                                                          *)
(***************************************************************************)
\* line 26: sys.stderr when verbose, else None
verbose_out == IF verbose THEN "stderr" ELSE "None"

\* print(..., file=f) for each message in turn; file=None writes to sys.stdout
WriteLines(f, msgs) ==
    /\ stderr' = IF f = "stderr" THEN stderr \o msgs ELSE stderr
    /\ stdout' = IF f = "stderr" THEN stdout ELSE stdout \o msgs

Msg(kind, path) == [kind |-> kind, file |-> path]

(***************************************************************************)
(* file_passes_check, one action per stage                                 *)
(***************************************************************************)
Stage(name) == steps' = Append(steps, name)

\* lines 47-52: open() or read() raises OSError
OpenFails ==
    /\ pc = "open"
    /\ WriteLines(verbose_out, << Msg("unable_to_open", filename) >>)
    /\ result' = "fail"
    /\ pc' = "done"
    /\ Stage("open-failed")
    /\ UNCHANGED <<filename, content, refs, verbose, current_year, data, lines,
                   generated, extension, ref>>
    /\ UNCHANGED mainVars

\* lines 47-49: the text is read
OpenReads ==
    /\ pc = "open"
    /\ data' = content
    /\ pc' = "resolve"
    /\ Stage("read")
    /\ UNCHANGED <<filename, content, refs, verbose, current_year, lines,
                   generated, extension, ref, result, stdout, stderr>>
    /\ UNCHANGED mainVars

\* lines 54-59: generated flag, effective extension, template lookup
ResolveTemplate ==
    /\ pc = "resolve"
    /\ generated' = is_generated_file(data)
    /\ extension' = EffectiveExtension(filename, data)
    /\ ref' = SelectRef(refs, EffectiveExtension(filename, data), filename)
    /\ pc' = "strip"
    /\ Stage("template-resolved")
    /\ UNCHANGED <<filename, content, refs, verbose, current_year, data, lines,
                   result, stdout, stderr>>
    /\ UNCHANGED mainVars

\* lines 61-67: preamble removed, text split into lines
Normalize ==
    /\ pc = "strip"
    /\ data' = StripPreamble(extension, data)
    /\ lines' = splitlines(StripPreamble(extension, data))
    /\ pc' = "size"
    /\ Stage("normalized")
    /\ UNCHANGED <<filename, content, refs, verbose, current_year, generated,
                   extension, ref, result, stdout, stderr>>
    /\ UNCHANGED mainVars

\* mutant: the comparison of the lengths is off by one
SizeCheckOffByOne ==
    /\ pc = "size"
    /\ Stage("size-checked")
    /\ IF Len(ref) > Len(lines) + 1
       THEN /\ WriteLines(verbose_out, << Msg("smaller", filename) >>)
            /\ result' = "fail"
            /\ pc' = "done"
            /\ UNCHANGED lines
       ELSE /\ lines' = Truncate(lines, Len(ref))
            /\ pc' = "guard"
            /\ UNCHANGED <<result, stdout, stderr>>
    /\ UNCHANGED <<filename, content, refs, verbose, current_year, data,
                   generated, extension, ref>>
    /\ UNCHANGED mainVars

\* lines 69-74: a file shorter than its template fails, else it is truncated
SizeCheck ==
    /\ pc = "size"
    /\ Stage("size-checked")
    /\ IF Len(ref) > Len(lines)
       THEN /\ WriteLines(verbose_out, << Msg("smaller", filename) >>)
            /\ result' = "fail"
            /\ pc' = "done"
            /\ UNCHANGED lines
       ELSE /\ lines' = Truncate(lines, Len(ref))
            /\ pc' = "guard"
            /\ UNCHANGED <<result, stdout, stderr>>
    /\ UNCHANGED <<filename, content, refs, verbose, current_year, data,
                   generated, extension, ref>>
    /\ UNCHANGED mainVars

\* mutant: the guard scans every line of the file, not the template's window
YearGuardWholeFile ==
    /\ pc = "guard"
    /\ Stage("year-guarded")
    /\ IF HasYearField(splitlines(data))
       THEN /\ WriteLines(verbose_out,
                  << Msg(IF generated THEN "year_in_generated" ELSE "year_missing",
                         filename) >>)
            /\ result' = "fail"
            /\ pc' = "done"
       ELSE /\ pc' = "normalize"
            /\ UNCHANGED <<result, stdout, stderr>>
    /\ UNCHANGED <<filename, content, refs, verbose, current_year, data, lines,
                   generated, extension, ref>>
    /\ UNCHANGED mainVars

\* lines 76-83: a line of the window carrying YEAR fails the file
YearGuard ==
    /\ pc = "guard"
    /\ Stage("year-guarded")
    /\ IF HasYearField(lines)
       THEN /\ WriteLines(verbose_out,
                  << Msg(IF generated THEN "year_in_generated" ELSE "year_missing",
                         filename) >>)
            /\ result' = "fail"
            /\ pc' = "done"
       ELSE /\ pc' = "normalize"
            /\ UNCHANGED <<result, stdout, stderr>>
    /\ UNCHANGED <<filename, content, refs, verbose, current_year, data, lines,
                   generated, extension, ref>>
    /\ UNCHANGED mainVars

\* mutant: the years of a generated file are replaced too
YearNormalizeAlways ==
    /\ pc = "normalize"
    /\ lines' = SubstituteYears(lines, current_year)
    /\ Stage("year-normalized")
    /\ pc' = "compare"
    /\ UNCHANGED <<filename, content, refs, verbose, current_year, data,
                   generated, extension, ref, result, stdout, stderr>>
    /\ UNCHANGED mainVars

\* lines 85-86: years replaced by YEAR unless the file is generated
YearNormalize ==
    /\ pc = "normalize"
    /\ IF generated
       THEN UNCHANGED <<lines, steps>>
       ELSE /\ lines' = SubstituteYears(lines, current_year)
            /\ Stage("year-normalized")
    /\ pc' = "compare"
    /\ UNCHANGED <<filename, content, refs, verbose, current_year, data,
                   generated, extension, ref, result, stdout, stderr>>
    /\ UNCHANGED mainVars

\* lines 88-95: the final comparison
Compare ==
    /\ pc = "compare"
    /\ Stage("compared")
    /\ IF ref # lines
       THEN /\ WriteLines(verbose_out,
                  << Msg("mismatch", filename) >>
                      \o (IF verbose THEN << Msg("diff", filename) >> ELSE << >>))
            /\ result' = "fail"
       ELSE /\ result' = "pass"
            /\ UNCHANGED <<stdout, stderr>>
    /\ pc' = "done"
    /\ UNCHANGED <<filename, content, refs, verbose, current_year, data, lines,
                   generated, extension, ref>>
    /\ UNCHANGED mainVars

\* the state before file_passes_check(filename, refs, regexs) starts
Init ==
    /\ filename \in FileNames
    /\ content \in Texts
    /\ refs \in RefMaps
    /\ verbose \in BOOLEAN
    /\ current_year \in CurrentYears
    /\ pc = "open"
    /\ data = ""
    /\ lines = << >>
    /\ generated = FALSE
    /\ extension = ""
    /\ ref = << >>
    /\ result = "none"
    /\ stdout = << >>
    /\ stderr = << >>
    /\ steps = << >>
    /\ main_pc = "idle"
    /\ filenames = << >>
    /\ walked = << >>
    /\ files_to_check = << >>
    /\ checked = << >>
    /\ exit_status = -1

Next ==
    \/ OpenFails
    \/ OpenReads
    \/ ResolveTemplate
    \/ Normalize
    \/ SizeCheck
    \/ YearGuard
    \/ YearNormalize
    \/ Compare

Spec == Init /\ [][Next]_vars


(***************************************************************************)
(* main and the functions that build its file list                         *)
(***************************************************************************)
\* file_passes_check as one call on a readable file: its return value and
\* the messages it prints to verbose_out (lines 54-95)
CheckReadable(path, text, rs, cy) ==
    LET gen    == is_generated_file(text)
        ext    == EffectiveExtension(path, text)
        tmpl   == SelectRef(rs, ext, path)
        all    == splitlines(StripPreamble(ext, text))
        window == Truncate(all, Len(tmpl))
        final  == IF gen THEN window ELSE SubstituteYears(window, cy)
    IN  IF Len(tmpl) > Len(all)
        THEN [result |-> FALSE, msgs |-> << Msg("smaller", path) >>]
        ELSE IF HasYearField(window)
        THEN [result |-> FALSE,
              msgs |-> << Msg(IF gen THEN "year_in_generated" ELSE "year_missing",
                              path) >>]
        ELSE IF tmpl # final
        THEN [result |-> FALSE,
              msgs |-> << Msg("mismatch", path) >>
                          \o (IF verbose THEN << Msg("diff", path) >> ELSE << >>)]
        ELSE [result |-> TRUE, msgs |-> << >>]

\* --rootdir
Rootdir == "/r"

\* os.path.join(args.rootdir, pathname) if not os.path.isabs(pathname) else pathname
FullPath(pathname) ==
    IF StartsWith(pathname, "/") THEN pathname ELSE Rootdir \o "/" \o pathname

\* lines 108-111: the explicit list, or the walked files whose extension or
\* name is a template key
CandidateFiles ==
    IF filenames # << >> THEN filenames
    ELSE SelectSeq(walked,
                   LAMBDA path : \/ get_file_extension(basename(path)) \in DOMAIN refs
                                 \/ basename(path) \in DOMAIN refs)

\* lines 130-131: the patterns are compiled and the templates loaded
MainSetup ==
    /\ main_pc = "start"
    /\ main_pc' = "files"
    /\ UNCHANGED <<files_to_check, checked, exit_status, filenames, walked>>
    /\ UNCHANGED checkVars
    /\ UNCHANGED <<stdout, stderr>>

\* line 132 with lines 97-112: normalize_files reads the name skipped_names,
\* which the module never binds, so the first path of a non-empty list
\* raises NameError and main ends with it
GetFilesToCheck ==
    /\ main_pc = "files"
    /\ IF CandidateFiles # << >>
       THEN /\ main_pc' = "raised"
            /\ UNCHANGED files_to_check
       ELSE /\ main_pc' = "loop"
            /\ files_to_check' =
                   [k \in 1..Len(CandidateFiles) |-> FullPath(CandidateFiles[k])]
    /\ UNCHANGED <<checked, exit_status, filenames, walked>>
    /\ UNCHANGED checkVars
    /\ UNCHANGED <<stdout, stderr>>

\* lines 134-138: the next file is checked, or the loop is over and main
\* returns 0
MainLoop ==
    /\ main_pc = "loop"
    /\ IF Len(checked) < Len(files_to_check)
       THEN LET path == files_to_check[Len(checked) + 1]
            IN  /\ checked' = Append(checked, path)
                /\ \E out \in { [result |-> FALSE,
                                 msgs |-> << Msg("unable_to_open", path) >>],
                                CheckReadable(path, content, refs, current_year) } :
                      LET failed == IF out.result THEN << >>
                                    ELSE << Msg("Failed", path) >>
                      IN  /\ stderr' = IF verbose THEN stderr \o out.msgs ELSE stderr
                          /\ stdout' = IF verbose THEN stdout \o failed
                                       ELSE stdout \o out.msgs \o failed
                /\ UNCHANGED <<main_pc, exit_status>>
       ELSE /\ main_pc' = "done"
            /\ exit_status' = 0
            /\ UNCHANGED <<checked, stdout, stderr>>
    /\ UNCHANGED <<files_to_check, filenames, walked>>
    /\ UNCHANGED checkVars

RECURSIVE SeqsUpTo(_, _)
SeqsUpTo(S, n) ==
    IF n = 0 THEN { << >> }
    ELSE LET shorter == SeqsUpTo(S, n - 1)
         IN  shorter \cup { Append(q, x) : q \in shorter, x \in S }

\* the state when main() is entered
InitMain ==
    /\ filenames \in SeqsUpTo(FileNames \cup {"x.txt"}, MaxFiles)
    /\ walked \in SeqsUpTo({ FullPath(f) : f \in FileNames \cup {"x.txt"} }, MaxFiles)
    /\ content \in { "", "# 2014\n", "# YEAR\n# L\n" }
    /\ refs \in RefMaps \cup { RefsNone }
    /\ verbose \in BOOLEAN
    /\ current_year \in CurrentYears
    /\ main_pc = "start"
    /\ files_to_check = << >>
    /\ checked = << >>
    /\ exit_status = -1
    /\ filename = ""
    /\ pc = "idle"
    /\ data = ""
    /\ lines = << >>
    /\ generated = FALSE
    /\ extension = ""
    /\ ref = << >>
    /\ result = "none"
    /\ stdout = << >>
    /\ stderr = << >>
    /\ steps = << >>

NextMain ==
    \/ MainSetup
    \/ GetFilesToCheck
    \/ MainLoop

SpecMain == InitMain /\ [][NextMain]_vars


(***************************************************************************)
(* Properties.  The quantities below are recomputed from the inputs        *)
(* (filename, content, refs, current_year), not read from the locals.      *)
(***************************************************************************)
\* the call has returned after reading the file
Returned == pc = "done" /\ steps # << >> /\ steps[1] = "read"

\* the lowercased extension after the generated-Go remap
EffectiveKey == EffectiveExtension(filename, content)

HasTemplate == EffectiveKey \in DOMAIN refs \/ basename(filename) \in DOMAIN refs

\* the template the file is held against
Template == SelectRef(refs, EffectiveKey, filename)

\* the candidate's lines after preamble stripping
StrippedLines == splitlines(StripPreamble(EffectiveKey, content))

\* the normalized header: the first len(Template) stripped lines
Header ==
    SubSeq(StrippedLines, 1,
           IF Len(Template) < Len(StrippedLines) THEN Len(Template)
           ELSE Len(StrippedLines))

IsGenerated == GeneratedSearch(content)

\* everything the call has printed, on either stream
Diagnostics == stdout \o stderr

\* the placeholder occurs in the line
YEARAt(l, i) == i + 3 <= Len(l) /\ SubSeq(l, i, i + 3) = "YEAR"

ContainsYEAR(l) == \E i \in 1..Len(l) : YEARAt(l, i)

\* a year of [2014, current year] starts at position i of the line
InRangeYearAt(l, i) ==
    \E y \in 2014..current_year : i + 3 <= Len(l) /\ SubSeq(l, i, i + 3) = YearStr(y)

ContainsInRangeYear(l) == \E i \in 1..Len(l) : InRangeYearAt(l, i)

\* C1: a file whose key has no template, neither under the effective
\* extension nor under the basename, never passes.
C1_NoTemplateFails == (pc = "done" /\ ~HasTemplate) => result = "fail"

NoYEAR(t) == \A k \in 1..Len(t) : ~ContainsYEAR(t[k])

NoInRangeYear(t) == \A k \in 1..Len(t) : ~ContainsInRangeYear(t[k])

\* C2: a readable file whose normalized header equals its template line for
\* line passes, whatever the template (templates containing YEAR included).
C2_Identity == (Returned /\ Header = Template) => result = "pass"

\* C2 (amended): a readable file whose normalized header equals its template
\* passes, provided no template line contains YEAR and, for a non-generated
\* file, no template line contains a year of [2014, current year].
C2_IdentityAmended ==
    Returned =>
        LET t == Template
            h == Header
        IN  (h = t /\ NoYEAR(t) /\ (NoInRangeYear(t) \/ IsGenerated))
                => result = "pass"

\* C2 witness: a file passes against a non-empty template equal to its
\* header, with further lines after the header.
C2_Witness ==
    /\ Returned
    /\ result = "pass"
    /\ Template # << >>
    /\ Header = Template
    /\ Len(StrippedLines) > Len(Template)
    /\ NoYEAR(Template)
    /\ NoInRangeYear(Template)

\* the line with every occurrence of YEAR replaced by the text ys
RECURSIVE ReplaceYEAR(_, _)
ReplaceYEAR(l, ys) ==
    IF l = "" THEN ""
    ELSE IF YEARAt(l, 1) THEN ys \o ReplaceYEAR(SubSeq(l, 5, Len(l)), ys)
    ELSE SubSeq(l, 1, 1) \o ReplaceYEAR(SubSeq(l, 2, Len(l)), ys)

\* the header h is the template t with YEAR replaced by a year of
\* [2014, current year]
IsTemplateWithYear(h, t) ==
    /\ Len(h) = Len(t)
    /\ \E y \in 2014..current_year :
           \A k \in 1..Len(t) : h[k] = ReplaceYEAR(t[k], YearStr(y))

\* the in-range years of the header h are exactly the substituted ones
OnlySubstitutedYears(h, t) ==
    \A k \in 1..Len(t) :
        Cardinality({ i \in 1..Len(h[k]) : InRangeYearAt(h[k], i) })
            = Cardinality({ i \in 1..Len(t[k]) : YEARAt(t[k], i) })

\* C3: a non-generated file whose header is its template with YEAR replaced
\* by a year of [2014, current year] passes, for every template text.
C3_RoundTrip ==
    Returned =>
        LET t == Template
            h == Header
        IN  (IsTemplateWithYear(h, t) /\ ~IsGenerated) => result = "pass"

\* C3 (amended): such a file passes provided the only years of
\* [2014, current year] that occur in its header are the substituted ones.
C3_RoundTripAmended ==
    Returned =>
        LET t == Template
            h == Header
        IN  (IsTemplateWithYear(h, t) /\ OnlySubstitutedYears(h, t) /\ ~IsGenerated)
                => result = "pass"

\* C3 witness: a template with a YEAR placeholder, a non-generated header
\* carrying a concrete year in its place, and a pass.
C3_Witness ==
    /\ Returned
    /\ result = "pass"
    /\ ~IsGenerated
    /\ ~NoYEAR(Template)
    /\ IsTemplateWithYear(Header, Template)
    /\ OnlySubstitutedYears(Header, Template)

\* the text begins with the preamble of its type
PreambleAtStart(ext, text) ==
    IF ext \in {"go", "generatego"}
    THEN \/ SubSeq(text, 1, IF Len(text) < 10 THEN Len(text) ELSE 10) = "//go:build"
         \/ SubSeq(text, 1, IF Len(text) < 9 THEN Len(text) ELSE 9) = "// +build"
    ELSE IF ext \in {"sh", "py"}
    THEN SubSeq(text, 1, IF Len(text) < 2 THEN Len(text) ELSE 2) = "#!"
    ELSE FALSE

\* C4: preamble stripping removes text only when the preamble begins at the
\* first character of the file, and stripping the stripped text again
\* changes nothing.
C4_AnchoredIdempotentStrip ==
    pc = "size" =>
        /\ data # content => PreambleAtStart(extension, content)
        /\ StripPreamble(extension, data) = data

\* C6: file_passes_check writes nothing to standard output: with verbose off
\* it prints no diagnostic at all, with verbose on only to stderr.
C6_DiagnosticsOnlyVerboseOnStderr ==
    /\ ~verbose => Diagnostics = << >>
    /\ verbose => stdout = << >>

\* YEAR occurs in one of the lines of the header h
YEARInWindow(h) == \E k \in 1..Len(h) : ContainsYEAR(h[k])

YearKinds == {"year_in_generated", "year_missing"}

\* C7: a file with at least as many lines as its template and YEAR inside
\* the template's window fails, with the generated-specific diagnostic if it
\* is generated and the missing-year diagnostic otherwise; YEAR outside the
\* window raises no YEAR diagnostic.
C7_YearGuard ==
    Returned =>
        LET t == Template
            all == StrippedLines
            h == SubSeq(all, 1, IF Len(t) < Len(all) THEN Len(t) ELSE Len(all))
        IN  Len(all) >= Len(t) =>
                IF YEARInWindow(h)
                THEN /\ result = "fail"
                     /\ Diagnostics =
                            << Msg(IF IsGenerated THEN "year_in_generated"
                                   ELSE "year_missing", filename) >>
                ELSE \A k \in 1..Len(Diagnostics) :
                         Diagnostics[k].kind \notin YearKinds

\* C7 witness: a generated file failed by the guard although YEAR is where
\* the template has it.
C7_Witness ==
    /\ Returned
    /\ result = "fail"
    /\ Diagnostics = << Msg("year_in_generated", filename) >>
    /\ IsGenerated
    /\ Header = Template
    /\ YEARInWindow(Header)

StageOrder ==
    << "read", "template-resolved", "normalized", "size-checked", "year-guarded",
       "year-normalized", "compared" >>

StageRank(name) ==
    IF \E k \in 1..Len(StageOrder) : StageOrder[k] = name
    THEN CHOOSE k \in 1..Len(StageOrder) : StageOrder[k] = name
    ELSE 0

\* C9: a file with fewer stripped lines than its template fails with the
\* size diagnostic alone, before the YEAR guard, the substitution and the
\* comparison; and the stages of every call run in the order
\* template-resolved, size-checked, year-guarded, year-normalized, compared.
C9_SizeCheckFirst ==
    /\ \A i, j \in 1..Len(steps) :
           (i < j /\ steps[1] = "read") => StageRank(steps[i]) < StageRank(steps[j])
    /\ Returned =>
           IF Len(StrippedLines) < Len(Template)
           THEN /\ result = "fail"
                /\ Diagnostics = << Msg("smaller", filename) >>
                /\ steps[Len(steps)] = "size-checked"
           ELSE /\ \E k \in 1..Len(steps) : steps[k] = "year-guarded"
                /\ \A k \in 1..Len(Diagnostics) : Diagnostics[k].kind # "smaller"

\* C9 witness: a short file whose lines contain YEAR and differ from the
\* template, failed by the size check.
C9_Witness ==
    /\ Returned
    /\ Diagnostics = << Msg("smaller", filename) >>
    /\ Len(StrippedLines) < Len(Template)
    /\ \E k \in 1..Len(StrippedLines) : ContainsYEAR(StrippedLines[k])

\* C10: a pass means the template equals the header, with years replaced by
\* YEAR when the file is not generated and verbatim when it is; a generated
\* file whose template spells YEAR does not pass.
C10_PassIsSound ==
    /\ result = "pass" =>
           /\ Returned
           /\ LET t == Template
                  h == Header
                  gen == IsGenerated
              IN  /\ Len(h) = Len(t)
                  /\ \A k \in 1..Len(t) :
                         t[k] = IF gen THEN h[k] ELSE DateSub(h[k], current_year)
    /\ (Returned /\ result # "fail") => (NoYEAR(Template) \/ ~IsGenerated)

\* C10 witness: a generated file with a concrete year where its template
\* spells YEAR, failed by the comparison.
C10_Witness ==
    /\ Returned
    /\ result = "fail"
    /\ steps[Len(steps)] = "compared"
    /\ IsGenerated
    /\ ~NoYEAR(Template)
    /\ IsTemplateWithYear(Header, Template)

\* C5: main checks every file of the batch and returns 0.
C5_BatchCompletes ==
    main_pc \in {"done", "raised"} =>
        /\ exit_status = 0
        /\ Len(checked) = Len(CandidateFiles)

\* C8: main never ends on an exception, so a file that cannot be read
\* leaves the rest of the batch to be checked.
C8_UnreadableContained ==
    /\ main_pc # "raised"
    /\ main_pc = "done" => Len(checked) = Len(files_to_check)

====
